---------------------------- MODULE Spec2Model ----------------------------
(***************************************************************************)
(* Model of the data pipeline of method2comment:                           *)
(*   language_model/dataset.py  load_data_file, build_vocab_from_data_dir, *)
(*                              tensorise_token_sequence,                  *)
(*                              get_minibatch_iterator                     *)
(*   train.py                   train                                      *)
(* Each component has its own specification (SpecLoad, SpecVocab,          *)
(* SpecTensor, SpecBatch, SpecTrain) over one set of variables.            *)
(***************************************************************************)
EXTENDS Integers, Sequences, FiniteSets, TLC

VARIABLES
    \* load_data_file
    node, edge,                 \* g.node, g.edge of the parsed Graph
    nodes_dict, tokens_by_start_pos, tokens_by_end_pos, methods, edges_dict,
    mi,                         \* number of method roots the for loop has taken
    nid, tokens,                \* locals of the for loop body
    yielded,                    \* the token lists the generator has yielded
    \* build_vocab_from_data_dir
    corpus, vocab_size, cnt, vocab, seq_idx,
    \* tensorise_token_sequence
    length, token_seq, tensorised,
    \* get_minibatch_iterator
    num_rows, batch_size, is_training, drop_remainder, indices, emitted,
    \* train
    max_epochs, patience, epoch, best_valid_acc, best_valid_epoch,
    saved_epoch, valid_accs,
    \* control
    pc, err

loadVars   == <<node, edge, nodes_dict, tokens_by_start_pos, tokens_by_end_pos,
                methods, edges_dict, mi, nid, tokens, yielded>>
vocabVars  == <<corpus, vocab_size, cnt, vocab, seq_idx>>
tensorVars == <<length, token_seq, tensorised>>
batchVars  == <<num_rows, batch_size, is_training, drop_remainder, indices, emitted>>
trainVars  == <<max_epochs, patience, epoch, best_valid_acc, best_valid_epoch,
                saved_epoch, valid_accs>>
vars == <<loadVars, vocabVars, tensorVars, batchVars, trainVars, pc, err>>

\* ------------------------------------------------------------------------
\* Bounds of the model
\* ------------------------------------------------------------------------
MaxEdges   == 3     \* edges in a graph
MaxMethods == 2     \* method roots in a graph
MaxTokens  == 3     \* tokens a traversal may collect before the model stops it
MaxCorpusTokens == 4  \* tokens in the corpus the vocabulary is built from
MaxVocabSize    == 3  \* vocab_size
MaxSeqLen  == 3     \* tokens in the sequence to tensorise
MaxLength  == 5     \* length, the size of a tensorised example
MaxRows    == 4     \* rows of the array to batch
MaxBatchSize == 3   \* batch_size
MaxEpochs  == 4     \* max_epochs
MaxPatience == 3    \* patience

\* ------------------------------------------------------------------------
\* Generic helpers
\* ------------------------------------------------------------------------
Range(s) == {s[i] : i \in DOMAIN s}

SeqsUpTo(S, n) == UNION {[1..k -> S] : k \in 0..n}

MaxOf(S) == CHOOSE x \in S : \A y \in S : y <= x

\* ------------------------------------------------------------------------
\* Strings.  str.lower() on the node contents the model uses.
\* ------------------------------------------------------------------------
START_SYMBOL == "%START%"
END_SYMBOL   == "%END%"
UNK_SYMBOL   == "%UNK%"
PAD_SYMBOL   == "%PAD%"

Lower(c) ==
    CASE c = "Public" -> "public"
      [] c = "Int"    -> "int"
      [] c = "METHOD" -> "method"
      [] c = "%END%"  -> "%end%"
      [] OTHER        -> c

\* ------------------------------------------------------------------------
\* load_data_file: the graphs
\* ------------------------------------------------------------------------
TOKEN            == "TOKEN"
IDENTIFIER_TOKEN == "IDENTIFIER_TOKEN"
AST_ELEMENT      == "AST_ELEMENT"
NEXT_TOKEN       == "NEXT_TOKEN"
CHILD            == "CHILD"

Node(i, t, c, s, e) ==
    [id |-> i, type |-> t, contents |-> c, startPosition |-> s, endPosition |-> e]

\* Three consecutive tokens of a source text, and a syntax node over all of it.
TokenNodes ==
    << Node(1, TOKEN, "Public", 0, 1),
       Node(2, IDENTIFIER_TOKEN, "Int", 1, 2),
       Node(3, IDENTIFIER_TOKEN, "foo", 2, 3),
       Node(4, AST_ELEMENT, "COMPILATION_UNIT", 0, 3) >>

TokenIds == {1, 2, 3}

\* Spans a method root may declare: over tokens 1..3, over token 1 alone, over
\* tokens 2..3, with no token at the start (3), with no token at the end (0).
MethodSpans == { <<0, 3>>, <<0, 1>>, <<1, 3>>, <<3, 3>>, <<1, 0>> }

MethodNodes(spans) ==
    [k \in 1..Len(spans) |->
        Node(Len(TokenNodes) + k, AST_ELEMENT, "METHOD", spans[k][1], spans[k][2])]

EdgeShapes ==
    { e \in [sourceId : TokenIds, destinationId : TokenIds, type : {NEXT_TOKEN, CHILD}] :
        /\ e.sourceId # e.destinationId
        /\ e.type = CHILD => e.sourceId = 1 }

\* The order of two edges matters to edges_dict only when they leave the same
\* node, so edge lists are taken grouped by source.
EdgeLists ==
    { es \in SeqsUpTo(EdgeShapes, MaxEdges) :
        \A i \in 1..(Len(es) - 1) : es[i].sourceId <= es[i + 1].sourceId }

IsTokenNode(n) == n.type \in {TOKEN, IDENTIFIER_TOKEN}

IsAnyNode(n) == TRUE

IsMethodRoot(n) == n.contents = "METHOD"

\* A dict built by `d[key(n)] = n` over the nodes in order keeps, for each
\* key, the last node that has it.
NodesDict(ns) ==
    [k \in {ns[i].id : i \in DOMAIN ns} |->
        ns[MaxOf({i \in DOMAIN ns : IsAnyNode(ns[i]) /\ ns[i].id = k})]]

TokensByStartPos(ns) ==
    [k \in {ns[i].startPosition : i \in {j \in DOMAIN ns : IsTokenNode(ns[j])}} |->
        ns[MaxOf({i \in DOMAIN ns : IsTokenNode(ns[i]) /\ ns[i].startPosition = k})]]

TokensByEndPos(ns) ==
    [k \in {ns[i].endPosition : i \in {j \in DOMAIN ns : IsTokenNode(ns[j])}} |->
        ns[MaxOf({i \in DOMAIN ns : IsTokenNode(ns[i]) /\ ns[i].endPosition = k})]]

Methods(ns) == SelectSeq(ns, IsMethodRoot)

EdgesDict(es) ==
    [s \in {es[i].sourceId : i \in DOMAIN es} |->
        SelectSeq(es, LAMBDA e : e.sourceId = s)]

\* Lines 78-81: every NEXT_TOKEN edge of the list assigns nid in turn, so the
\* last one decides; nid stays when there is none.
RECURSIVE FollowEdges(_, _)
FollowEdges(es, n) ==
    IF es = <<>> THEN n
    ELSE FollowEdges(Tail(es), IF Head(es).type = NEXT_TOKEN
                               THEN Head(es).destinationId ELSE n)

RECURSIVE FollowFirstEdge(_, _)
FollowFirstEdge(es, n) ==
    IF es = <<>> THEN n
    ELSE IF Head(es).type = NEXT_TOKEN THEN Head(es).destinationId
    ELSE FollowFirstEdge(Tail(es), n)

NextNidFirst(ed, n) == IF n \in DOMAIN ed THEN FollowFirstEdge(ed[n], n) ELSE n

NextNid(ed, n) == IF n \in DOMAIN ed THEN FollowEdges(ed[n], n) ELSE n

\* Line 83: only a non-empty list is yielded.
YieldAlways(ts) == TRUE

ShouldYield(ts) == Len(ts) > 0

\* ------------------------------------------------------------------------
\* Values of the variables a specification does not use
\* ------------------------------------------------------------------------
IdleLoad ==
    /\ node = <<>> /\ edge = <<>>
    /\ nodes_dict = <<>> /\ tokens_by_start_pos = <<>> /\ tokens_by_end_pos = <<>>
    /\ methods = <<>> /\ edges_dict = <<>>
    /\ mi = 0 /\ nid = 0 /\ tokens = <<>> /\ yielded = <<>>

IdleVocab ==
    corpus = <<>> /\ vocab_size = 0 /\ cnt = <<>> /\ vocab = <<>> /\ seq_idx = 0

IdleTensor == length = 0 /\ token_seq = <<>> /\ tensorised = <<>>

IdleBatch ==
    /\ num_rows = 0 /\ batch_size = 1 /\ is_training = FALSE
    /\ drop_remainder = TRUE /\ indices = <<>> /\ emitted = <<>>

IdleTrain ==
    /\ max_epochs = 0 /\ patience = 0 /\ epoch = 0 /\ best_valid_acc = 0
    /\ best_valid_epoch = 0 /\ saved_epoch = 0 /\ valid_accs = <<>>

\* ------------------------------------------------------------------------
\* load_data_file (dataset.py 31-84)
\* ------------------------------------------------------------------------
InitLoad ==
    /\ \E es \in EdgeLists, ms \in SeqsUpTo(MethodSpans, MaxMethods) :
          /\ node = TokenNodes \o MethodNodes(ms)
          /\ edge = es
    /\ nodes_dict = <<>> /\ tokens_by_start_pos = <<>> /\ tokens_by_end_pos = <<>>
    /\ methods = <<>> /\ edges_dict = <<>>
    /\ mi = 0 /\ nid = 0 /\ tokens = <<>> /\ yielded = <<>>
    /\ pc = "index" /\ err = "none"
    /\ IdleVocab /\ IdleTensor /\ IdleBatch /\ IdleTrain

\* Lines 48-67: the indices over the nodes and the edges.
IndexGraph ==
    /\ pc = "index"
    /\ nodes_dict' = NodesDict(node)
    /\ tokens_by_start_pos' = TokensByStartPos(node)
    /\ tokens_by_end_pos' = TokensByEndPos(node)
    /\ methods' = Methods(node)
    /\ edges_dict' = EdgesDict(edge)
    /\ pc' = "for"
    /\ UNCHANGED <<node, edge, mi, nid, tokens, yielded, err>>
    /\ UNCHANGED <<vocabVars, tensorVars, batchVars, trainVars>>

\* Lines 69-73: the next method root; its start token is looked up.
MethodStart ==
    /\ pc = "for"
    /\ mi < Len(methods)
    /\ mi' = mi + 1
    /\ LET m == methods[mi + 1] IN
         IF m.startPosition \in DOMAIN tokens_by_start_pos
         THEN /\ nid' = tokens_by_start_pos[m.startPosition].id
              /\ tokens' = <<>>
              /\ pc' = "while"
              /\ err' = err
         ELSE /\ pc' = "raised"
              /\ err' = "KeyError"
              /\ UNCHANGED <<nid, tokens>>
    /\ UNCHANGED <<node, edge, nodes_dict, tokens_by_start_pos, tokens_by_end_pos,
                   methods, edges_dict, yielded>>
    /\ UNCHANGED <<vocabVars, tensorVars, batchVars, trainVars>>

\* Line 76: the end token is looked up by the loop test.
WhileKeyError ==
    /\ pc = "while"
    /\ methods[mi].endPosition \notin DOMAIN tokens_by_end_pos
    /\ pc' = "raised"
    /\ err' = "KeyError"
    /\ UNCHANGED loadVars
    /\ UNCHANGED <<vocabVars, tensorVars, batchVars, trainVars>>

\* Lines 76-81: one iteration of the while loop.
WhileBody ==
    /\ pc = "while"
    /\ methods[mi].endPosition \in DOMAIN tokens_by_end_pos
    /\ nid # tokens_by_end_pos[methods[mi].endPosition].id
    /\ Len(tokens) < MaxTokens
    /\ tokens' = Append(tokens, Lower(nodes_dict[nid].contents))
    /\ nid' = NextNid(edges_dict, nid)
    /\ UNCHANGED <<node, edge, nodes_dict, tokens_by_start_pos, tokens_by_end_pos,
                   methods, edges_dict, mi, yielded, pc, err>>
    /\ UNCHANGED <<vocabVars, tensorVars, batchVars, trainVars>>

\* Lines 76, 83-84: the loop ends at the end token; a non-empty list is yielded.
WhileExit ==
    /\ pc = "while"
    /\ methods[mi].endPosition \in DOMAIN tokens_by_end_pos
    /\ nid = tokens_by_end_pos[methods[mi].endPosition].id
    /\ yielded' = IF ShouldYield(tokens) THEN Append(yielded, tokens) ELSE yielded
    /\ pc' = "for"
    /\ UNCHANGED <<node, edge, nodes_dict, tokens_by_start_pos, tokens_by_end_pos,
                   methods, edges_dict, mi, nid, tokens, err>>
    /\ UNCHANGED <<vocabVars, tensorVars, batchVars, trainVars>>

\* Line 69: no method root is left; the generator is exhausted.
LoadReturn ==
    /\ pc = "for"
    /\ mi = Len(methods)
    /\ pc' = "done"
    /\ UNCHANGED <<loadVars, err>>
    /\ UNCHANGED <<vocabVars, tensorVars, batchVars, trainVars>>

NextLoad ==
    \/ IndexGraph
    \/ MethodStart
    \/ WhileKeyError
    \/ WhileBody
    \/ WhileExit
    \/ LoadReturn

SpecLoad == InitLoad /\ [][NextLoad]_vars

\* ------------------------------------------------------------------------
\* load_data_file: what the specification says of a graph, stated on g.node
\* and g.edge alone
\* ------------------------------------------------------------------------
MinOf(S) == CHOOSE x \in S : \A y \in S : x <= y

NextTokenEdges(i) ==
    {k \in DOMAIN edge : edge[k].sourceId = i /\ edge[k].type = NEXT_TOKEN}

FirstNextToken(i) == edge[MinOf(NextTokenEdges(i))].destinationId
LastNextToken(i)  == edge[MaxOf(NextTokenEdges(i))].destinationId

TokenLikeIds == {node[i].id : i \in {j \in DOMAIN node : IsTokenNode(node[j])}}

\* The lowercased text of the three tokens, written out.
LoweredText == [i \in TokenIds |-> CASE i = 1 -> "public" [] i = 2 -> "int" [] i = 3 -> "foo"]

IdOfText(t) == CHOOSE i \in TokenIds : LoweredText[i] = t

StartTokens(m) ==
    {node[i].id : i \in {j \in DOMAIN node :
        IsTokenNode(node[j]) /\ node[j].startPosition = m.startPosition}}
EndTokens(m) ==
    {node[i].id : i \in {j \in DOMAIN node :
        IsTokenNode(node[j]) /\ node[j].endPosition = m.endPosition}}

\* The next-token chain from token s up to, not including, token e; fuel bounds
\* the walk by the number of tokens.
RECURSIVE Chain(_, _, _)
Chain(s, e, fuel) ==
    IF s = e THEN <<>>
    ELSE IF fuel = 0 \/ NextTokenEdges(s) = {} THEN <<"unreachable">>
    ELSE <<LoweredText[s]>> \o Chain(FirstNextToken(s), e, fuel - 1)

MethodChain(m) ==
    Chain(CHOOSE s \in StartTokens(m) : TRUE, CHOOSE e \in EndTokens(m) : TRUE,
          Cardinality(TokenLikeIds))

MethodRoots == SelectSeq(node, LAMBDA n : n.contents = "METHOD")

\* Every token has at most one next-token edge; every method root has its two
\* boundary tokens, the end one reachable from the start one.
WellFormedGraph ==
    /\ \A i \in TokenLikeIds : Cardinality(NextTokenEdges(i)) <= 1
    /\ \A k \in DOMAIN MethodRoots :
         /\ StartTokens(MethodRoots[k]) # {}
         /\ EndTokens(MethodRoots[k]) # {}
         /\ "unreachable" \notin Range(MethodChain(MethodRoots[k]))

ExpectedSequences ==
    SelectSeq([k \in DOMAIN MethodRoots |-> MethodChain(MethodRoots[k])],
              LAMBDA ts : ts # <<>>)

IsPrefix(a, b) == Len(a) <= Len(b) /\ \A i \in DOMAIN a : a[i] = b[i]

\* C3: on a graph whose tokens have at most one next-token edge and whose
\* methods' end tokens are reachable, load_data_file yields, in method-root
\* order, the lowercased chain from each method's start token up to but
\* excluding its end token, skipping the empty lists; no error is raised.
C3_YieldsChains ==
    WellFormedGraph =>
        /\ err = "none"
        /\ IsPrefix(yielded, ExpectedSequences)
        /\ pc = "done" => yielded = ExpectedSequences

\* Two methods in one graph, the first yielding two tokens, the second one.
C3_Witness ==
    /\ pc = "done"
    /\ WellFormedGraph
    /\ Len(MethodRoots) = 2
    /\ yielded = << <<"public", "int">>, <<"int">> >>

\* The node the traversal has just left: the one whose text was appended last.
PrevNid == IdOfText(tokens[Len(tokens)])

\* C4 (as amended): when the node just left has more than one next-token
\* edge, the traversal is at the destination of the LAST of them in
\* edge-enumeration order.
C4_TakesLastEdge ==
    (pc = "while" /\ tokens # <<>> /\ Cardinality(NextTokenEdges(PrevNid)) > 1)
        => nid = LastNextToken(PrevNid)

C4_Witness ==
    /\ pc = "while" /\ tokens # <<>>
    /\ Cardinality(NextTokenEdges(PrevNid)) > 1
    /\ FirstNextToken(PrevNid) # LastNextToken(PrevNid)
    /\ nid = LastNextToken(PrevNid)

\* C4 (as claimed): the traversal is at the destination of the FIRST
\* next-token edge of the node just left.
C4_TakesFirstEdge ==
    (pc = "while" /\ tokens # <<>> /\ Cardinality(NextTokenEdges(PrevNid)) > 1)
        => nid = FirstNextToken(PrevNid)

\* The start and end token of the method being traversed.
CurStartId == tokens_by_start_pos[methods[mi].startPosition].id
CurEndId   == tokens_by_end_pos[methods[mi].endPosition].id

\* C5: a traversal that has come back to its start node from another node
\* without having reached the end node is reported as TraversalCycleError.
C5_CycleReported ==
    (/\ pc = "while"
     /\ tokens # <<>>
     /\ methods[mi].endPosition \in DOMAIN tokens_by_end_pos
     /\ nid = CurStartId
     /\ PrevNid # nid
     /\ nid # CurEndId)
        => err = "TraversalCycleError"

\* C6: a method root whose start or end position has no token fails the
\* record with MissingTokenBoundaryError.
C6_MissingBoundaryReported ==
    (/\ pc = "raised"
     /\ \/ methods[mi].startPosition \notin DOMAIN tokens_by_start_pos
        \/ methods[mi].endPosition \notin DOMAIN tokens_by_end_pos)
        => err = "MissingTokenBoundaryError"

\* ------------------------------------------------------------------------
\* Vocabulary (dpu_utils) as the pipeline uses it: the list id_to_token, the
\* id of a token being its index in the list, counted from 0.
\* ------------------------------------------------------------------------
add_or_get_id(v, t) == IF t \in Range(v) THEN v ELSE Append(v, t)

IndexIn(v, t) == CHOOSE k \in DOMAIN v : v[k] = t

get_id_or_unk(v, t) ==
    IF t \in Range(v) THEN IndexIn(v, t) - 1 ELSE IndexIn(v, UNK_SYMBOL) - 1

\* Vocabulary(add_unk=True, add_pad=True), then START_SYMBOL and END_SYMBOL.
NewVocabulary ==
    add_or_get_id(add_or_get_id(add_or_get_id(add_or_get_id(<<>>,
        PAD_SYMBOL), UNK_SYMBOL), START_SYMBOL), END_SYMBOL)

\* ------------------------------------------------------------------------
\* collections.Counter: (token, count) entries in first-insertion order
\* ------------------------------------------------------------------------
CounterAdd(c, t) ==
    IF \E k \in DOMAIN c : c[k].token = t
    THEN [k \in DOMAIN c |->
            IF c[k].token = t THEN [c[k] EXCEPT !.count = @ + 1] ELSE c[k]]
    ELSE Append(c, [token |-> t, count |-> 1])

RECURSIVE CountAll(_, _)
CountAll(c, ts) == IF ts = <<>> THEN c ELSE CountAll(CounterAdd(c, Head(ts)), Tail(ts))

RemoveAt(c, k) == SubSeq(c, 1, k - 1) \o SubSeq(c, k + 1, Len(c))

\* The entry most_common ranks first: the highest count, and among equal
\* counts the one inserted first.
FirstLargest(c) ==
    MinOf({k \in DOMAIN c : \A j \in DOMAIN c : c[j].count <= c[k].count})

LastLargest(c) ==
    MaxOf({k \in DOMAIN c : \A j \in DOMAIN c : c[j].count <= c[k].count})

\* most_common with ties going to the entry inserted last.
RECURSIVE MostCommonLastTie(_, _)
MostCommonLastTie(c, n) ==
    IF n <= 0 \/ c = <<>> THEN <<>>
    ELSE <<c[LastLargest(c)].token>>
            \o MostCommonLastTie(RemoveAt(c, LastLargest(c)), n - 1)

\* cnt.most_common(n), the tokens only
RECURSIVE MostCommon(_, _)
MostCommon(c, n) ==
    IF n <= 0 \/ c = <<>> THEN <<>>
    ELSE <<c[FirstLargest(c)].token>>
            \o MostCommon(RemoveAt(c, FirstLargest(c)), n - 1)

RECURSIVE AddAll(_, _)
AddAll(v, ts) == IF ts = <<>> THEN v ELSE AddAll(add_or_get_id(v, Head(ts)), Tail(ts))

\* ------------------------------------------------------------------------
\* build_vocab_from_data_dir (dataset.py 87-116)
\* ------------------------------------------------------------------------
\* Node contents as they stand in the records.
Contents == {"Public", "public", "Int", "%END%"}

\* The non-empty token lists of at most n raw contents in all.
RECURSIVE RawCorpora(_)
RawCorpora(n) ==
    IF n = 0 THEN {<<>>}
    ELSE LET prev == RawCorpora(n - 1) IN
         prev \cup { Append(c, <<t>>) : c \in prev, t \in Contents }
              \cup { [c EXCEPT ![Len(c)] = Append(@, t)] :
                        c \in prev \ {<<>>}, t \in Contents }

\* load_data_file lowercases what it yields (line 77).
Lowered(c) == [k \in DOMAIN c |-> [i \in DOMAIN c[k] |-> Lower(c[k][i])]]

InitVocab ==
    /\ \E raw \in RawCorpora(MaxCorpusTokens) : corpus = Lowered(raw)
    /\ vocab_size \in 0..MaxVocabSize
    /\ cnt = <<>> /\ vocab = <<>> /\ seq_idx = 0
    /\ pc = "new" /\ err = "none"
    /\ IdleLoad /\ IdleTensor /\ IdleBatch /\ IdleTrain

\* Lines 101-106
CreateVocab ==
    /\ pc = "new"
    /\ vocab' = NewVocabulary
    /\ cnt' = <<>>
    /\ pc' = "count"
    /\ UNCHANGED <<corpus, vocab_size, seq_idx, err>>
    /\ UNCHANGED <<loadVars, tensorVars, batchVars, trainVars>>

\* Lines 109-111: the tokens of one token list are counted.
CountSeq ==
    /\ pc = "count"
    /\ seq_idx < Len(corpus)
    /\ cnt' = CountAll(cnt, corpus[seq_idx + 1])
    /\ seq_idx' = seq_idx + 1
    /\ UNCHANGED <<corpus, vocab_size, vocab, pc, err>>
    /\ UNCHANGED <<loadVars, tensorVars, batchVars, trainVars>>

\* Lines 113-116
AddMostCommon ==
    /\ pc = "count"
    /\ seq_idx = Len(corpus)
    /\ vocab' = AddAll(vocab, MostCommon(cnt, vocab_size))
    /\ pc' = "done"
    /\ UNCHANGED <<corpus, vocab_size, cnt, seq_idx, err>>
    /\ UNCHANGED <<loadVars, tensorVars, batchVars, trainVars>>

NextVocab == CreateVocab \/ CountSeq \/ AddMostCommon

SpecVocab == InitVocab /\ [][NextVocab]_vars

\* --- what the specification says, stated on the corpus alone ---
RECURSIVE Flatten(_)
Flatten(ss) == IF ss = <<>> THEN <<>> ELSE Head(ss) \o Flatten(Tail(ss))

CorpusTokens == Range(Flatten(corpus))
Frequency(t) == Cardinality({i \in DOMAIN Flatten(corpus) : Flatten(corpus)[i] = t})
FirstSeen(t) == MinOf({i \in DOMAIN Flatten(corpus) : Flatten(corpus)[i] = t})
RanksBefore(t, u) ==
    \/ Frequency(t) > Frequency(u)
    \/ Frequency(t) = Frequency(u) /\ FirstSeen(t) < FirstSeen(u)

ReservedSymbols == {UNK_SYMBOL, PAD_SYMBOL, START_SYMBOL, END_SYMBOL}
NumSelected ==
    IF vocab_size < Cardinality(CorpusTokens) THEN vocab_size
    ELSE Cardinality(CorpusTokens)

TensoriseAtEndOffByOne(v, seq, i) ==
    IF i = 0 THEN get_id_or_unk(v, START_SYMBOL)
    ELSE IF Len(seq) >= i THEN get_id_or_unk(v, seq[i])
    ELSE IF i = Len(seq) THEN get_id_or_unk(v, END_SYMBOL)
    ELSE get_id_or_unk(v, PAD_SYMBOL)

\* Lines 135-142 with the test of line 137 strict: len(token_seq) > i.
TensoriseAtStrict(v, seq, i) ==
    IF i = 0 THEN get_id_or_unk(v, START_SYMBOL)
    ELSE IF Len(seq) > i THEN get_id_or_unk(v, seq[i])
    ELSE IF i = Len(seq) + 1 THEN get_id_or_unk(v, END_SYMBOL)
    ELSE get_id_or_unk(v, PAD_SYMBOL)

\* Lines 135-142: the id appended for index i (token_seq[i-1] is seq[i] here).
TensoriseAt(v, seq, i) ==
    IF i = 0 THEN get_id_or_unk(v, START_SYMBOL)
    ELSE IF Len(seq) >= i THEN get_id_or_unk(v, seq[i])
    ELSE IF i = Len(seq) + 1 THEN get_id_or_unk(v, END_SYMBOL)
    ELSE get_id_or_unk(v, PAD_SYMBOL)

\* Tokens as load_data_file yields them, one of them never in a vocabulary.
SeqTokens == {"public", "int", "foo"}

\* The vocabularies build_vocab_from_data_dir returns over two of the tokens.
Vocabularies ==
    { AddAll(NewVocabulary, ts) :
        ts \in {t \in SeqsUpTo({"public", "int"}, 2) :
                  \A i, j \in DOMAIN t : i # j => t[i] # t[j]} }

InitTensor ==
    /\ vocab \in Vocabularies
    /\ length \in (-1)..MaxLength
    /\ token_seq \in SeqsUpTo(SeqTokens, MaxSeqLen)
    /\ tensorised = <<>>
    /\ corpus = <<>> /\ vocab_size = 0 /\ cnt = <<>> /\ seq_idx = 0
    /\ pc = "for" /\ err = "none"
    /\ IdleLoad /\ IdleBatch /\ IdleTrain

\* Lines 134-142: one iteration of `for i in range(length)`.
TensoriseStep ==
    /\ pc = "for"
    /\ Len(tensorised) < length
    /\ tensorised' = Append(tensorised, TensoriseAt(vocab, token_seq, Len(tensorised)))
    /\ UNCHANGED <<length, token_seq, pc, err>>
    /\ UNCHANGED <<loadVars, vocabVars, batchVars, trainVars>>

\* Line 144
TensoriseReturn ==
    /\ pc = "for"
    /\ Len(tensorised) >= length
    /\ pc' = "done"
    /\ UNCHANGED <<tensorVars, err>>
    /\ UNCHANGED <<loadVars, vocabVars, batchVars, trainVars>>

NextTensor == TensoriseStep \/ TensoriseReturn

SpecTensor == InitTensor /\ [][NextTensor]_vars

\* --- what the specification says ---
\* The id of a token: its place in the vocabulary, that of %UNK% when absent.
IdOrUnknown(t) ==
    IF \E k \in DOMAIN vocab : vocab[k] = t
    THEN (CHOOSE k \in DOMAIN vocab : vocab[k] = t) - 1
    ELSE (CHOOSE k \in DOMAIN vocab : vocab[k] = "%UNK%") - 1
StartId == (CHOOSE k \in DOMAIN vocab : vocab[k] = "%START%") - 1
EndId   == (CHOOSE k \in DOMAIN vocab : vocab[k] = "%END%") - 1
PadId   == (CHOOSE k \in DOMAIN vocab : vocab[k] = "%PAD%") - 1

\* C1: with L > n + 1 the result has L ids: start, the n token ids (unknown
\* for a token outside the vocabulary), end at n+1, pad from n+2 on.
C1_PaddedLayout ==
    (pc = "done" /\ length > Len(token_seq) + 1) =>
        /\ err = "none"
        /\ Len(tensorised) = length
        /\ tensorised[1] = StartId
        /\ \A i \in 1..Len(token_seq) : tensorised[i + 1] = IdOrUnknown(token_seq[i])
        /\ tensorised[Len(token_seq) + 2] = EndId
        /\ \A i \in (Len(token_seq) + 2)..(length - 1) : tensorised[i + 1] = PadId

\* A sequence with a token outside the vocabulary, followed by end and pads.
C1_Witness ==
    /\ pc = "done"
    /\ Len(token_seq) = 2
    /\ length = Len(token_seq) + 3
    /\ token_seq[2] \notin Range(vocab)
    /\ token_seq[1] \in Range(vocab)
    /\ tensorised = <<StartId, IdOrUnknown(token_seq[1]), 1, EndId, PadId>>

\* C2: with L >= 2 and n >= L - 1 the result has L ids: start, then the ids
\* of the first L-1 tokens; the end id is nowhere in it.
C2_TruncatedLayout ==
    (pc = "done" /\ length >= 2 /\ Len(token_seq) >= length - 1) =>
        /\ err = "none"
        /\ Len(tensorised) = length
        /\ tensorised[1] = StartId
        /\ \A i \in 1..(length - 1) : tensorised[i + 1] = IdOrUnknown(token_seq[i])
        /\ \A k \in DOMAIN tensorised : tensorised[k] # EndId

\* Both the exact fit (n = L - 1) and a sequence that loses tokens.
C2_Witness ==
    /\ pc = "done"
    /\ length = 3
    /\ Len(token_seq) = 3
    /\ Len(tensorised) = 3
    /\ tensorised[3] = IdOrUnknown(token_seq[2])

\* C9: a length below 2 is rejected with ConfigurationError and no id list.
C9_ShortLengthRejected ==
    (pc = "done" /\ length < 2) => (err = "ConfigurationError" /\ tensorised = <<>>)

\* ------------------------------------------------------------------------
\* get_minibatch_iterator (dataset.py 174-189)
\* ------------------------------------------------------------------------
\* np.arange(n)
Arange(n) == [i \in 1..n |-> i - 1]

IndexPermutations(n) ==
    { p \in [1..n -> 0..(n - 1)] : \A i, j \in 1..n : i # j => p[i] # p[j] }

\* more_itertools.chunked: the k-th list of n items, the last one maybe shorter.
Chunk(xs, n, k) ==
    SubSeq(xs, (k - 1) * n + 1, IF k * n < Len(xs) THEN k * n ELSE Len(xs))

NumChunks(xs, n) == (Len(xs) + n - 1) \div n

\* Line 185 with the comparison not strict.
DropsChunkNotStrict(chunk, bs, drop) == Len(chunk) <= bs /\ drop

\* Line 185
DropsChunk(chunk, bs, drop) == Len(chunk) < bs /\ drop

InitBatch ==
    /\ num_rows \in 0..MaxRows
    /\ batch_size \in 1..MaxBatchSize
    /\ is_training \in BOOLEAN
    /\ drop_remainder \in BOOLEAN
    /\ indices = <<>> /\ emitted = <<>>
    /\ pc = "arange" /\ err = "none"
    /\ IdleLoad /\ IdleVocab /\ IdleTensor /\ IdleTrain

\* Lines 180-182
MakeIndices ==
    /\ pc = "arange"
    /\ IF is_training
       THEN indices' \in IndexPermutations(num_rows)
       ELSE indices' = Arange(num_rows)
    /\ pc' = "chunks"
    /\ UNCHANGED <<num_rows, batch_size, is_training, drop_remainder, emitted, err>>
    /\ UNCHANGED <<loadVars, vocabVars, tensorVars, trainVars>>

\* Lines 184-189: the next chunk is gathered and yielded.
YieldBatch ==
    /\ pc = "chunks"
    /\ Len(emitted) < NumChunks(indices, batch_size)
    /\ LET chunk == Chunk(indices, batch_size, Len(emitted) + 1) IN
         /\ ~DropsChunk(chunk, batch_size, drop_remainder)
         /\ emitted' = Append(emitted, chunk)
    /\ UNCHANGED <<num_rows, batch_size, is_training, drop_remainder, indices, pc, err>>
    /\ UNCHANGED <<loadVars, vocabVars, tensorVars, trainVars>>

\* Lines 185-186: the short last chunk is dropped and the loop left.
DropRemainder ==
    /\ pc = "chunks"
    /\ Len(emitted) < NumChunks(indices, batch_size)
    /\ DropsChunk(Chunk(indices, batch_size, Len(emitted) + 1), batch_size, drop_remainder)
    /\ pc' = "done"
    /\ UNCHANGED <<batchVars, err>>
    /\ UNCHANGED <<loadVars, vocabVars, tensorVars, trainVars>>

\* Line 184: no chunk is left.
BatchesExhausted ==
    /\ pc = "chunks"
    /\ Len(emitted) = NumChunks(indices, batch_size)
    /\ pc' = "done"
    /\ UNCHANGED <<batchVars, err>>
    /\ UNCHANGED <<loadVars, vocabVars, tensorVars, trainVars>>

NextBatch == MakeIndices \/ YieldBatch \/ DropRemainder \/ BatchesExhausted

SpecBatch == InitBatch /\ [][NextBatch]_vars

\* --- what the specification says ---
Occurrences(r) ==
    Cardinality({<<k, i>> \in (DOMAIN emitted) \X (1..MaxOf({batch_size, num_rows})) :
                    i \in DOMAIN emitted[k] /\ emitted[k][i] = r})

EmittedRows == Len(Flatten(emitted))

\* C7: the batches are consecutive chunks of a permutation of 0..N-1 (of
\* 0..N-1 in order when not training); without drop_remainder every row is in
\* exactly one batch; with it every batch is full, no row is in two, and
\* N - (N mod batch_size) rows are emitted.
C7_BatchesPartitionRows ==
    /\ pc \in {"chunks", "done"} =>
         /\ Len(indices) = num_rows
         /\ Range(indices) = 0..(num_rows - 1)
         /\ ~is_training => indices = Arange(num_rows)
         /\ IsPrefix(Flatten(emitted), indices)
         /\ \A k \in 1..(Len(emitted) - 1) : Len(emitted[k]) = batch_size
         /\ \A k \in DOMAIN emitted : Len(emitted[k]) \in 1..batch_size
    /\ (pc = "done" /\ ~drop_remainder) =>
         \A r \in 0..(num_rows - 1) : Occurrences(r) = 1
    /\ (pc = "done" /\ drop_remainder) =>
         /\ \A k \in DOMAIN emitted : Len(emitted[k]) = batch_size
         /\ \A r \in 0..(num_rows - 1) : Occurrences(r) <= 1
         /\ EmittedRows = num_rows - (num_rows % batch_size)

\* A shuffled run that drops a short last chunk after a full one.
C7_Witness ==
    /\ pc = "done"
    /\ is_training /\ drop_remainder
    /\ indices # Arange(num_rows)
    /\ num_rows % batch_size # 0
    /\ Len(emitted) >= 1
    /\ EmittedRows = num_rows - (num_rows % batch_size)

\* ------------------------------------------------------------------------
\* train (train.py 31-79)
\* ------------------------------------------------------------------------
\* Validation accuracies, as far as their order goes.
Accuracies == {0, 1, 2}

\* Line 70 with the comparison strict.
PatienceExhaustedStrict(e, best_e, p) == e - best_e > p

\* Line 70
PatienceExhausted(e, best_e, p) == e - best_e >= p

InitTrain ==
    /\ max_epochs \in 0..MaxEpochs
    /\ patience \in 0..MaxPatience
    /\ epoch = 0 /\ best_valid_acc = 0 /\ best_valid_epoch = 0
    /\ saved_epoch = 0 /\ valid_accs = <<>>
    /\ pc = "initial" /\ err = "none"
    /\ IdleLoad /\ IdleVocab /\ IdleTensor /\ IdleBatch

\* Lines 40-47: the initial evaluation; the untrained model is saved.
InitialEvaluation ==
    /\ pc = "initial"
    /\ \E acc \in Accuracies :
         /\ best_valid_acc' = acc
         /\ valid_accs' = <<acc>>
    /\ saved_epoch' = 0
    /\ best_valid_epoch' = 0
    /\ pc' = "epochs"
    /\ UNCHANGED <<max_epochs, patience, epoch, err>>
    /\ UNCHANGED <<loadVars, vocabVars, tensorVars, batchVars>>

\* Lines 48-79: one epoch, with its validation accuracy.
RunEpoch ==
    /\ pc = "epochs"
    /\ epoch < max_epochs
    /\ epoch' = epoch + 1
    /\ \E valid_acc \in Accuracies :
         /\ valid_accs' = Append(valid_accs, valid_acc)
         /\ IF valid_acc >= best_valid_acc
            THEN /\ saved_epoch' = epoch'
                 /\ best_valid_acc' = valid_acc
                 /\ best_valid_epoch' = epoch'
                 /\ pc' = pc
            ELSE /\ UNCHANGED <<saved_epoch, best_valid_acc, best_valid_epoch>>
                 /\ pc' = IF PatienceExhausted(epoch', best_valid_epoch, patience)
                          THEN "stopped" ELSE pc
    /\ UNCHANGED <<max_epochs, patience, err>>
    /\ UNCHANGED <<loadVars, vocabVars, tensorVars, batchVars>>

\* Line 48: range(1, max_epochs + 1) is exhausted.
EpochsExhausted ==
    /\ pc = "epochs"
    /\ epoch = max_epochs
    /\ pc' = "done"
    /\ UNCHANGED <<trainVars, err>>
    /\ UNCHANGED <<loadVars, vocabVars, tensorVars, batchVars>>

NextTrain == InitialEvaluation \/ RunEpoch \/ EpochsExhausted

SpecTrain == InitTrain /\ [][NextTrain]_vars

\* --- what the claim says, stated on the accuracies observed ---
\* Epoch k (0 the initial evaluation) was saved as best: its accuracy is at
\* least every earlier one.
SavedAsBest(k) == \A j \in 0..(k - 1) : valid_accs[j + 1] <= valid_accs[k + 1]
LastBestEpoch == MaxOf({k \in 0..epoch : SavedAsBest(k)})
EpochsWithoutImprovement == epoch - LastBestEpoch

SavedModelIsBest ==
    /\ saved_epoch = LastBestEpoch
    /\ valid_accs[saved_epoch + 1] = MaxOf(Range(valid_accs))

=============================================================================
